---------------------------- MODULE Spec2Model ----------------------------
(***************************************************************************)
(* sera_lab: normalization of line-oriented records  <kind>|<id>|<payload> *)
(*                                                                         *)
(* A Python str is modelled as a sequence of one-character strings, so    *)
(* that splitting, stripping, case mapping and joining are computed, not   *)
(* assumed.  An operation name (Rule.op) is a str as well; each of its     *)
(* whitespace-free words is written as one symbol ("upper_payload"), its   *)
(* whitespace characters one by one.                                       *)
(*                                                                         *)
(* Three specifications:                                                   *)
(*   SpecParse  parse_line and render_record on every short line           *)
(*   SpecRule   compile_rule and the compiled transform on every short     *)
(*              rule and record                                            *)
(*   Spec       normalize_lines, statement by statement                    *)
(***************************************************************************)
EXTENDS Naturals, Sequences, FiniteSets

\* ------------------------------------------------------------------ bounds

MaxLineLen == 7
MaxOpLen   == 2
MaxPayLen  == 2
MaxLines   == 2
MaxRules   == 2

\* ----------------------------------------------------------------- strings

NL  == "\n"
SEP == "|"

\* the fields of a record line
NumFields == 3

\* str.isspace() on ASCII: the characters str.strip() removes.
Whitespace == {" ", "\t", "\n", "\r", "\f"}

LowerLetters ==
  <<"a","b","c","d","e","f","g","h","i","j","k","l","m",
    "n","o","p","q","r","s","t","u","v","w","x","y","z">>

UpperLetters ==
  <<"A","B","C","D","E","F","G","H","I","J","K","L","M",
    "N","O","P","Q","R","S","T","U","V","W","X","Y","Z">>

LowerChar(c) ==
  IF \E i \in 1..26 : UpperLetters[i] = c
  THEN LowerLetters[CHOOSE i \in 1..26 : UpperLetters[i] = c]
  ELSE c

UpperChar(c) ==
  IF \E i \in 1..26 : LowerLetters[i] = c
  THEN UpperLetters[CHOOSE i \in 1..26 : LowerLetters[i] = c]
  ELSE c

\* str.lower()
lower(s) == [i \in 1..Len(s) |-> LowerChar(s[i])]

\* str.upper()
upper(s) == [i \in 1..Len(s) |-> UpperChar(s[i])]

\* str.rstrip(chars)
RECURSIVE rstrip(_, _)
rstrip(s, chars) ==
  IF s # <<>> /\ s[Len(s)] \in chars
  THEN rstrip(SubSeq(s, 1, Len(s) - 1), chars)
  ELSE s

\* str.lstrip(chars)
RECURSIVE lstrip(_, _)
lstrip(s, chars) ==
  IF s # <<>> /\ s[1] \in chars
  THEN lstrip(SubSeq(s, 2, Len(s)), chars)
  ELSE s

\* str.strip(): leading and trailing whitespace removed
strip(s) == rstrip(lstrip(s, Whitespace), Whitespace)

\* str.split(sep, n): at most n splits, the rest of s is the last part
RECURSIVE split_n(_, _, _)
split_n(s, sep, n) ==
  IF n > 0 /\ \E i \in 1..Len(s) : s[i] = sep
  THEN LET i == CHOOSE k \in 1..Len(s) :
                  s[k] = sep /\ \A j \in 1..(k - 1) : s[j] # sep
       IN  <<SubSeq(s, 1, i - 1)>> \o split_n(SubSeq(s, i + 1, Len(s)), sep, n - 1)
  ELSE <<s>>

\* mutant of split: raw.split("|", 2)
split_max2(s, sep) == split_n(s, sep, 2)

\* str.split(sep): one part more than there are separators; parts may be empty
RECURSIVE split(_, _)
split(s, sep) ==
  IF \E i \in 1..Len(s) : s[i] = sep
  THEN LET i == CHOOSE k \in 1..Len(s) :
                  s[k] = sep /\ \A j \in 1..(k - 1) : s[j] # sep
       IN  <<SubSeq(s, 1, i - 1)>> \o split(SubSeq(s, i + 1, Len(s)), sep)
  ELSE <<s>>

\* ------------------------------------------------------------------ errors

NoError == [type |-> "none", reason |-> "", got |-> 0, raw |-> <<>>]

\* ParseError(f"expected 3 fields separated by '|', got {len(parts)}: {raw!r}")
FieldCountError(n, raw) ==
  [type |-> "ParseError", reason |-> "expected 3 fields", got |-> n, raw |-> raw]

\* ParseError(f"empty field in line: {raw!r}")
EmptyFieldError(raw) ==
  [type |-> "ParseError", reason |-> "empty field", got |-> 3, raw |-> raw]

\* RuleError(f"unknown op: {rule.op!r}")
UnknownOpError(op) ==
  [type |-> "RuleError", reason |-> "unknown op", got |-> 0, raw |-> op]

\* ----------------------------------------------------------------- records

Record(kind, rec_id, payload) ==
  [kind |-> kind, rec_id |-> rec_id, payload |-> payload]

\* placeholder where no Record exists (a raised call returns nothing)
NoRecord == Record(<<>>, <<>>, <<>>)

\* `payload is None`: split() yields str objects only, never None
IsNone(s) == FALSE

\* mutant of RawOf: one trailing newline removed at most
RawOf_one_newline(line) ==
  IF line # <<>> /\ line[Len(line)] = NL
  THEN SubSeq(line, 1, Len(line) - 1)
  ELSE line

\* the line with its newline removed, as parse_line computes it
RawOf(line) == rstrip(line, {NL})

parse_line(line) ==
  LET raw   == RawOf(line)
      parts == split(raw, SEP)
  IN  IF Len(parts) # NumFields
      THEN [err |-> FieldCountError(Len(parts), raw), rec |-> NoRecord]
      ELSE IF parts[1] = <<>> \/ parts[2] = <<>> \/ IsNone(parts[3])
           THEN [err |-> EmptyFieldError(raw), rec |-> NoRecord]
           ELSE [err |-> NoError, rec |-> Record(parts[1], parts[2], parts[3])]

\* mutant of render_record: the fields in another order
render_record_swapped(r) == r.rec_id \o <<SEP>> \o r.kind \o <<SEP>> \o r.payload

render_record(r) == r.kind \o <<SEP>> \o r.rec_id \o <<SEP>> \o r.payload

\* ------------------------------------------------------------------- rules

\* Rule.kind is Optional[str]: <<>> is None, <<k>> is the str k
None == <<>>
Some(k) == <<k>>

Rule(name, op, arg, kind) ==
  [name |-> name, op |-> op, arg |-> arg, kind |-> kind]

SupportedOps ==
  {<<"lower_payload">>, <<"upper_payload">>, <<"strip_payload">>,
   <<"prefix_payload">>, <<"suffix_payload">>}

\* the closure compile_rule returns: the stripped op and the rule it closes over
NoTransform == [op |-> <<>>, arg |-> <<>>, kind |-> None]

\* mutant of guard: the kind filter is not consulted
guard_ignored(rule, r) == TRUE

guard(rule, r) == rule.kind = None \/ r.kind = rule.kind[1]

\* mutant of prefixed: no second prefix when the payload already starts with it
prefixed_once(arg, payload) ==
  IF Len(payload) >= Len(arg) /\ SubSeq(payload, 1, Len(arg)) = arg
  THEN payload
  ELSE arg \o payload

\* rule.arg + r.payload
prefixed(arg, payload) == arg \o payload

\* r.payload + rule.arg
suffixed(arg, payload) == payload \o arg

\* the compiled xform called on a record
xform(t, r) ==
  IF t.op = <<"lower_payload">>
  THEN IF ~guard(t, r) THEN r ELSE Record(r.kind, r.rec_id, lower(r.payload))
  ELSE IF t.op = <<"upper_payload">>
  THEN IF ~guard(t, r) THEN r ELSE Record(r.kind, r.rec_id, upper(r.payload))
  ELSE IF t.op = <<"strip_payload">>
  THEN IF ~guard(t, r) THEN r ELSE Record(r.kind, r.rec_id, strip(r.payload))
  ELSE IF t.op = <<"prefix_payload">>
  THEN IF ~guard(t, r) THEN r ELSE Record(r.kind, r.rec_id, prefixed(t.arg, r.payload))
  ELSE IF t.op = <<"suffix_payload">>
  THEN IF ~guard(t, r) THEN r ELSE Record(r.kind, r.rec_id, suffixed(t.arg, r.payload))
  ELSE r

\* rule.op.strip()
StrippedOp(rule) == strip(rule.op)

\* mutant of compile_rule: no raise at the end, an unknown op compiles to a
\* transform that changes nothing
compile_rule_no_raise(rule) ==
  [err |-> NoError, t |-> [op |-> StrippedOp(rule), arg |-> rule.arg, kind |-> rule.kind]]

compile_rule(rule) ==
  LET op == StrippedOp(rule)
  IN  IF op \in SupportedOps
      THEN [err |-> NoError, t |-> [op |-> op, arg |-> rule.arg, kind |-> rule.kind]]
      ELSE [err |-> UnknownOpError(rule.op), t |-> NoTransform]

\* mutant of compile_rules: a rule that does not compile is left out
RECURSIVE compile_rules_skip_bad(_)
compile_rules_skip_bad(rs) ==
  IF rs = <<>>
  THEN [err |-> NoError, ts |-> <<>>]
  ELSE LET head == compile_rule(rs[1])
           rest == compile_rules_skip_bad(Tail(rs))
       IN  IF head.err # NoError
           THEN rest
           ELSE [err |-> NoError, ts |-> <<head.t>> \o rest.ts]

\* [compile_rule(r) for r in rules]: in order, the first failure raises
RECURSIVE compile_rules(_)
compile_rules(rs) ==
  IF rs = <<>>
  THEN [err |-> NoError, ts |-> <<>>]
  ELSE LET head == compile_rule(rs[1])
       IN  IF head.err # NoError
           THEN [err |-> head.err, ts |-> <<>>]
           ELSE LET rest == compile_rules(Tail(rs))
                IN  IF rest.err # NoError
                    THEN [err |-> rest.err, ts |-> <<>>]
                    ELSE [err |-> NoError, ts |-> <<head.t>> \o rest.ts]


\* ------------------------------------------------------------------- state

VARIABLES
  \* normalize_lines(lines, rules)
  lines,       \* the input lines
  rules,       \* the rule descriptors
  pc,          \* "start", "loop", "xform", "returned", "raised"
  transforms,  \* compile_rules' result, once it has returned
  consumed,    \* how many lines the for loop has taken from `lines`
  cur,         \* normalize_record's cur
  ti,          \* how many transforms normalize_record has applied to cur
  out,         \* the local list out
  returned,    \* <<>> until normalize_lines returns, then <<its result>>
  error,       \* the exception normalize_lines raised, NoError if none
  \* parse_line(line) and render_record, called alone
  ppc, pline, presult, prender,
  \* compile_rule(rule) and its transform, called alone
  rpc, rrule, rrec, rcomp, rres

pipeVars  == <<lines, rules, pc, transforms, consumed, cur, ti, out, returned, error>>
parseVars == <<ppc, pline, presult, prender>>
ruleVars  == <<rpc, rrule, rrec, rcomp, rres>>
vars      == <<pipeVars, parseVars, ruleVars>>

\* all sequences over S of length at most n
SeqsUpTo(S, n) == UNION {[1..k -> S] : k \in 0..n}

PipeIdle ==
  /\ lines = <<>> /\ rules = <<>> /\ pc = "idle" /\ transforms = <<>>
  /\ consumed = 0 /\ cur = NoRecord /\ ti = 0 /\ out = <<>>
  /\ returned = <<>> /\ error = NoError

ParseIdle ==
  /\ ppc = "idle" /\ pline = <<>> /\ prender = <<>>
  /\ presult = [err |-> NoError, rec |-> NoRecord]

RuleIdle ==
  /\ rpc = "idle" /\ rrule = Rule("", <<>>, <<>>, None) /\ rrec = NoRecord
  /\ rcomp = [err |-> NoError, t |-> NoTransform] /\ rres = NoRecord

\* ------------------------------------------------- SpecParse: parse_line

ParseAlphabet == {"a", SEP, NL}

ParseLines == SeqsUpTo(ParseAlphabet, MaxLineLen)

InitParse ==
  /\ pline \in ParseLines
  /\ ppc = "start"
  /\ presult = [err |-> NoError, rec |-> NoRecord]
  /\ prender = <<>>
  /\ PipeIdle /\ RuleIdle

\* rec = parse_line(line)  # may raise
ParseStep ==
  /\ ppc = "start"
  /\ presult' = parse_line(pline)
  /\ ppc' = IF presult'.err = NoError THEN "parsed" ELSE "raised"
  /\ UNCHANGED <<pline, prender, pipeVars, ruleVars>>

\* render_record(rec)
RenderStep ==
  /\ ppc = "parsed"
  /\ prender' = render_record(presult.rec)
  /\ ppc' = "rendered"
  /\ UNCHANGED <<pline, presult, pipeVars, ruleVars>>

NextParse == ParseStep \/ RenderStep

SpecParse == InitParse /\ [][NextParse]_vars

\* ------------------------------------------------- SpecRule: compile_rule

OpAlphabet ==
  {"lower_payload", "upper_payload", "strip_payload", "prefix_payload",
   "suffix_payload", "frobnicate", " "}

PayAlphabet == {"a", "B", " "}

RuleOps   == SeqsUpTo(OpAlphabet, MaxOpLen)
RuleArgs  == {<<>>, <<">", " ">>}
RuleKinds == {None, Some(<<"A">>)}

RuleRecords ==
  {Record(k, <<"1">>, p) : k \in {<<"A">>, <<"B">>}, p \in SeqsUpTo(PayAlphabet, MaxPayLen)}

InitRule ==
  /\ rrule \in {Rule("r", o, a, k) : o \in RuleOps, a \in RuleArgs, k \in RuleKinds}
  /\ rrec \in RuleRecords
  /\ rpc = "start"
  /\ rcomp = [err |-> NoError, t |-> NoTransform]
  /\ rres = NoRecord
  /\ PipeIdle /\ ParseIdle

\* t = compile_rule(rule)  # may raise
CompileStep ==
  /\ rpc = "start"
  /\ rcomp' = compile_rule(rrule)
  /\ rpc' = IF rcomp'.err = NoError THEN "compiled" ELSE "raised"
  /\ UNCHANGED <<rrule, rrec, rres, pipeVars, parseVars>>

\* t(rec)
ApplyStep ==
  /\ rpc = "compiled"
  /\ rres' = xform(rcomp.t, rrec)
  /\ rpc' = "applied"
  /\ UNCHANGED <<rrule, rrec, rcomp, pipeVars, parseVars>>

NextRule == CompileStep \/ ApplyStep

SpecRule == InitRule /\ [][NextRule]_vars

\* ---------------------------------------------------- Spec: normalize_lines

\* "A|1|x"
LineA1x == <<"A", SEP, "1", SEP, "x">>
\* "B|2| Hi \n"
LineB2Hi == <<"B", SEP, "2", SEP, " ", "H", "i", " ", NL>>
\* "A|1|2|x"
LineFour == <<"A", SEP, "1", SEP, "2", SEP, "x">>
\* "A|1|"
LineNoPayload == <<"A", SEP, "1", SEP>>
\* "|1|x"
LineNoKind == <<SEP, "1", SEP, "x">>

LineInputs == {LineA1x, LineB2Hi, LineFour, LineNoPayload, LineNoKind}

RuleInputs ==
  { Rule("prefix", <<"prefix_payload">>, <<">", ">", " ">>, None),
    Rule("upper_a", <<"upper_payload">>, <<>>, Some(<<"A">>)),
    Rule("strip", <<"strip_payload">>, <<>>, None),
    Rule("suffix_b", <<"suffix_payload">>, <<"!">>, Some(<<"B">>)),
    Rule("lower", <<" ", "lower_payload">>, <<>>, None),
    Rule("frob", <<"frobnicate">>, <<>>, None) }

Init ==
  /\ lines \in SeqsUpTo(LineInputs, MaxLines)
  /\ rules \in SeqsUpTo(RuleInputs, MaxRules)
  /\ pc = "start"
  /\ transforms = <<>>
  /\ consumed = 0
  /\ cur = NoRecord
  /\ ti = 0
  /\ out = <<>>
  /\ returned = <<>>
  /\ error = NoError
  /\ ParseIdle /\ RuleIdle

\* transforms = compile_rules(rules); out = []
Compile ==
  /\ pc = "start"
  /\ LET c == compile_rules(rules)
     IN  IF c.err # NoError
         THEN /\ error' = c.err
              /\ pc' = "raised"
              /\ UNCHANGED transforms
         ELSE /\ transforms' = c.ts
              /\ pc' = "loop"
              /\ UNCHANGED error
  /\ UNCHANGED <<lines, rules, consumed, cur, ti, out, returned, parseVars, ruleVars>>

\* mutant of NextLine: a line that does not parse is skipped
NextLine_skip_bad ==
  /\ pc = "loop"
  /\ consumed < Len(lines)
  /\ consumed' = consumed + 1
  /\ LET p == parse_line(lines[consumed + 1])
     IN  IF p.err # NoError
         THEN UNCHANGED <<cur, ti, pc>>
         ELSE /\ cur' = p.rec
              /\ ti' = 0
              /\ pc' = "xform"
  /\ UNCHANGED <<lines, rules, transforms, out, returned, error, parseVars, ruleVars>>

\* for line in lines: rec = parse_line(line)  # may raise
\* and normalize_record's  cur = r
NextLine ==
  /\ pc = "loop"
  /\ consumed < Len(lines)
  /\ consumed' = consumed + 1
  /\ LET p == parse_line(lines[consumed + 1])
     IN  IF p.err # NoError
         THEN /\ error' = p.err
              /\ pc' = "raised"
              /\ UNCHANGED <<cur, ti>>
         ELSE /\ cur' = p.rec
              /\ ti' = 0
              /\ pc' = "xform"
              /\ UNCHANGED error
  /\ UNCHANGED <<lines, rules, transforms, out, returned, parseVars, ruleVars>>

\* for t in transforms: cur = t(cur)
ApplyTransform ==
  /\ pc = "xform"
  /\ ti < Len(transforms)
  /\ cur' = xform(transforms[ti + 1], cur)
  /\ ti' = ti + 1
  /\ UNCHANGED <<lines, rules, pc, transforms, consumed, out, returned, error,
                 parseVars, ruleVars>>

\* mutant of append: out.insert(0, line)
append_front(lst, line) == <<line>> \o lst

\* the list out after out.append(line)
append(lst, line) == Append(lst, line)

\* return cur;  out.append(render_record(norm))
Emit ==
  /\ pc = "xform"
  /\ ti = Len(transforms)
  /\ out' = append(out, render_record(cur))
  /\ pc' = "loop"
  /\ UNCHANGED <<lines, rules, transforms, consumed, cur, ti, returned, error,
                 parseVars, ruleVars>>

\* return out
Return ==
  /\ pc = "loop"
  /\ consumed = Len(lines)
  /\ returned' = <<out>>
  /\ pc' = "returned"
  /\ UNCHANGED <<lines, rules, transforms, consumed, cur, ti, out, error,
                 parseVars, ruleVars>>

Next == Compile \/ NextLine \/ ApplyTransform \/ Emit \/ Return

Spec == Init /\ [][Next]_vars

\* ----------------------------------------------------- claims on parse_line

\* parse_line has been called on pline
ParseCalled == ppc \in {"parsed", "raised", "rendered"}

\* parse_line returned a Record
ParseReturned == ppc \in {"parsed", "rendered"}

\* how many separators a string holds
SepCount(s) == Cardinality({i \in 1..Len(s) : s[i] = SEP})

\* how many newline characters end a string
RECURSIVE TrailingNewlines(_)
TrailingNewlines(s) ==
  IF s # <<>> /\ s[Len(s)] = NL
  THEN 1 + TrailingNewlines(SubSeq(s, 1, Len(s) - 1))
  ELSE 0

EndsWithNewline(s) == s # <<>> /\ s[Len(s)] = NL

\* k newline characters
Newlines(k) == [i \in 1..k |-> NL]

\* pline without its trailing newlines, cut at its separators
ClaimFields == split(SubSeq(pline, 1, Len(pline) - TrailingNewlines(pline)), SEP)

\* C1 (as claimed): a line that splits into three parts of which the kind, the
\* id or the payload is empty is rejected with ParseError; "A|1|" yields no
\* Record.
C1_EmptyFieldRejected ==
  (/\ ParseCalled
   /\ Len(ClaimFields) = NumFields
   /\ \E i \in 1..NumFields : ClaimFields[i] = <<>>)
  => (ppc = "raised" /\ presult.err.type = "ParseError")

\* C2 (as claimed): whenever parse_line succeeds, render_record of its Record
\* is the original line, character for character.
C2_RoundTripExact ==
  (ppc = "rendered" /\ \A i \in 1..NumFields : SepCount(ClaimFields[i]) = 0)
  => prender = pline

\* C2 (amended): whenever parse_line succeeds, render_record of its Record is
\* the original line without its trailing newline characters: the line is the
\* rendering followed by newlines only, and the rendering ends in none.
C2_RoundTripUpToNewlines ==
  ppc = "rendered"
  => /\ \E k \in 0..Len(pline) : pline = prender \o Newlines(k)
     /\ ~EndsWithNewline(prender)

\* "a|a|a\n" is parsed and rendered as "a|a|a"
C2_Witness ==
  /\ ppc = "rendered"
  /\ pline = <<"a", SEP, "a", SEP, "a", NL>>
  /\ prender = <<"a", SEP, "a", SEP, "a">>

\* C4 (as claimed): at most one trailing newline is removed before parsing, so
\* of a line ending in two or more newlines all but the last stay in the payload.
C4_AtMostOneNewlineRemoved ==
  (ParseReturned /\ TrailingNewlines(pline) >= 2)
  => TrailingNewlines(presult.rec.payload) = TrailingNewlines(pline) - 1

\* C4 (amended): every trailing newline is removed before parsing: the payload
\* of the decoded Record ends in no newline, whatever the number of newlines
\* ending the line, and the raw line a ParseError reports ends in none either.
C4_AllTrailingNewlinesRemoved ==
  /\ ParseReturned => ~EndsWithNewline(presult.rec.payload)
  /\ ppc = "raised"
     => /\ ~EndsWithNewline(presult.err.raw)
        /\ pline = presult.err.raw \o Newlines(TrailingNewlines(pline))

\* "a|a|a\n\n" decodes to the payload "a"
C4_Witness ==
  /\ ppc = "parsed"
  /\ pline = <<"a", SEP, "a", SEP, "a", NL, NL>>
  /\ presult.rec = Record(<<"a">>, <<"a">>, <<"a">>)

\* C10: a line holding fewer or more than two separators is rejected with
\* ParseError, and the error reports the number of parts found, one more than
\* the number of separators.
C10_FieldCountRejected ==
  (ParseCalled /\ SepCount(pline) # 2)
  => /\ ppc = "raised"
     /\ presult.err.type = "ParseError"
     /\ presult.err.reason = "expected 3 fields"
     /\ presult.err.got = SepCount(pline) + 1
     /\ presult.rec = NoRecord

\* "a|a|a|a" is rejected with the count 4
C10_Witness ==
  /\ ppc = "raised"
  /\ pline = <<"a", SEP, "a", SEP, "a", SEP, "a">>
  /\ presult.err.type = "ParseError"
  /\ presult.err.got = 4

\* ---------------------------------------------------- claims on compile_rule

\* the five operation names of the documentation, as written there
ExactSupported(op) == op \in SupportedOps

\* one of the five names with nothing but whitespace before and after it
PaddedSupported(op) ==
  \E i \in 1..Len(op) :
    /\ <<op[i]>> \in SupportedOps
    /\ \A j \in 1..Len(op) : j # i => op[j] \in Whitespace

\* the operation name inside a padded op
NameOf(op) == op[CHOOSE i \in 1..Len(op) : op[i] \notin Whitespace]

\* the table of operations: what the named operation makes of a payload
Effect(name, arg, payload) ==
  CASE name = "lower_payload"  -> lower(payload)
    [] name = "upper_payload"  -> upper(payload)
    [] name = "strip_payload"  -> strip(payload)
    [] name = "prefix_payload" -> arg \o payload
    [] name = "suffix_payload" -> payload \o arg

\* C3 (as claimed): compile_rule succeeds only for an operation string that is
\* one of the five supported names, and fails with RuleError, returning no
\* transform, for every other string.
C3_OnlyExactNamesCompile ==
  /\ rpc \in {"compiled", "applied"} => ExactSupported(rrule.op)
  /\ (rpc = "raised" /\ ~ExactSupported(rrule.op))
     => (rcomp.err.type = "RuleError" /\ rcomp.t = NoTransform)

\* C3 (amended): compile_rule succeeds only for an operation string that, with
\* its leading and trailing whitespace removed, is one of the five supported
\* names; for every other string it fails with RuleError at compile time and
\* returns no transform.
C3_OnlyPaddedNamesCompile ==
  /\ rpc \in {"compiled", "applied"} => PaddedSupported(rrule.op)
  /\ (rpc # "start" /\ ~PaddedSupported(rrule.op))
     => /\ rpc = "raised"
        /\ rcomp.err.type = "RuleError"
        /\ rcomp.err.raw = rrule.op
        /\ rcomp.t = NoTransform

\* " upper_payload" compiles
C3_Witness ==
  /\ rpc = "compiled"
  /\ rrule.op = <<" ", "upper_payload">>
  /\ rcomp.err = NoError

\* C8: a transform whose rule has the kind filter K returns a record of another
\* kind as it was, in kind, id and payload, whatever the operation and the
\* argument; a transform without a kind filter applies its operation to the
\* payload of every record.
C8_FilterCorrect ==
  rpc = "applied"
  => /\ (rrule.kind # None /\ rrec.kind # rrule.kind[1]) => rres = rrec
     /\ rrule.kind = None
        => rres = Record(rrec.kind, rrec.rec_id,
                         Effect(NameOf(rrule.op), rrule.arg, rrec.payload))

\* a prefix rule for kind A leaves a record of kind B alone
C8_Witness ==
  /\ rpc = "applied"
  /\ rrule.op = <<"prefix_payload">>
  /\ rrule.arg = <<">", " ">>
  /\ rrule.kind = Some(<<"A">>)
  /\ rrec = Record(<<"B">>, <<"1">>, <<"a">>)
  /\ rres = rrec

\* ------------------------------------------------ claims on normalize_lines

\* normalize_lines has not consumed, decoded, transformed or returned anything
NothingProcessed ==
  /\ consumed = 0
  /\ cur = NoRecord
  /\ ti = 0
  /\ transforms = <<>>
  /\ out = <<>>
  /\ returned = <<>>

\* the call ended by raising RuleError for the first rule of rs that holds under bad
RaisedRuleErrorFor(bad(_)) ==
  /\ pc = "raised"
  /\ error.type = "RuleError"
  /\ \E k \in 1..Len(rules) :
       /\ bad(rules[k].op)
       /\ \A j \in 1..(k - 1) : ~bad(rules[j].op)
       /\ error.raw = rules[k].op

ExactUnsupported(op) == ~ExactSupported(op)
PaddedUnsupported(op) == ~PaddedSupported(op)

\* C5 (as claimed): when some rule descriptor names an operation that is not one
\* of the five supported names, normalize_lines raises RuleError before any
\* line is consumed, decoded or transformed and returns nothing, whatever the
\* lines are.
C5_ExactUnsupportedRaisesFirst ==
  (\E k \in 1..Len(rules) : ExactUnsupported(rules[k].op))
  => /\ NothingProcessed
     /\ pc # "start" => RaisedRuleErrorFor(ExactUnsupported)

\* C5 (amended): when some rule descriptor names an operation that, with its
\* leading and trailing whitespace removed, is not one of the five supported
\* names, normalize_lines raises RuleError before any line is consumed, decoded
\* or transformed and returns neither a transform list nor an output line, for
\* every number of rules, every position of the bad one and every input, an
\* empty one and one whose first line is malformed included.
C5_UnsupportedRaisesFirst ==
  (\E k \in 1..Len(rules) : PaddedUnsupported(rules[k].op))
  => /\ NothingProcessed
     /\ pc # "start" => RaisedRuleErrorFor(PaddedUnsupported)

\* the second of two rules is unsupported and the first line is malformed:
\* RuleError, not ParseError
C5_Witness ==
  /\ pc = "raised"
  /\ error.type = "RuleError"
  /\ Len(rules) = 2
  /\ PaddedSupported(rules[1].op)
  /\ rules[2].op = <<"frobnicate">>
  /\ lines # <<>>
  /\ lines[1] = LineFour
  /\ NothingProcessed

\* line i does not decode
Malformed(i) == parse_line(lines[i]).err # NoError

\* line i is the first line that does not decode
FirstMalformed(i) == Malformed(i) /\ \A j \in 1..(i - 1) : ~Malformed(j)

AllRulesCompile == \A k \in 1..Len(rules) : PaddedSupported(rules[k].op)

\* C6: if all rules compile and line i is the first line that does not decode,
\* normalize_lines raises ParseError for line i, returns no output line (those
\* computed for the lines before i are lost) and takes no line after i.
C6_ParseFailureAllOrNothing ==
  \A i \in 1..Len(lines) :
    (AllRulesCompile /\ FirstMalformed(i))
    => /\ consumed <= i
       /\ returned = <<>>
       /\ pc # "returned"
       /\ Len(out) < i
       /\ consumed = i
          => /\ pc = "raised"
             /\ error = parse_line(lines[i]).err
             /\ error.type = "ParseError"
       /\ pc = "raised" => consumed = i

\* the second line is malformed: ParseError, and the first line's output is lost
C6_Witness ==
  /\ pc = "raised"
  /\ error.type = "ParseError"
  /\ consumed = 2
  /\ Len(lines) = 2
  /\ Len(out) = 1
  /\ returned = <<>>
  /\ rules # <<>>

\* the record r after the transforms ts, applied from the left
RECURSIVE Folded(_, _)
Folded(ts, r) ==
  IF ts = <<>> THEN r ELSE Folded(Tail(ts), xform(ts[1], r))

\* the output line of one input line under the rules rs, the line alone deciding
LineResult(line, rs) ==
  render_record(Folded(compile_rules(rs).ts, parse_line(line).rec))

\* C7: when every rule compiles and every line decodes, normalize_lines returns
\* as many output lines as there are input lines, and output line i is the
\* result for input line i alone: nothing dropped, doubled, merged or reordered.
C7_OrderPreserved ==
  /\ pc = "returned"
     => /\ Len(returned) = 1
        /\ Len(returned[1]) = Len(lines)
        /\ \A i \in 1..Len(lines) : returned[1][i] = LineResult(lines[i], rules)
  /\ (AllRulesCompile /\ pc \in {"loop", "xform"})
     => /\ Len(out) = IF pc = "xform" THEN consumed - 1 ELSE consumed
        /\ \A i \in 1..Len(out) : out[i] = LineResult(lines[i], rules)

\* two different lines, two different outputs, in the order of the input
C7_Witness ==
  /\ pc = "returned"
  /\ lines = <<LineB2Hi, LineA1x>>
  /\ Len(rules) = 2
  /\ returned[1][1] = LineResult(LineB2Hi, rules)
  /\ returned[1][2] = LineResult(LineA1x, rules)
  /\ returned[1][1] # returned[1][2]

\* rule r's filter admits records of this kind
Admits(r, kind) == r.kind = None \/ r.kind = Some(kind)

\* p(n): the payload p0 of a record of this kind after the first n rules
RECURSIVE PayloadAfter(_, _, _)
PayloadAfter(n, kind, p0) ==
  IF n = 0
  THEN p0
  ELSE LET prev == PayloadAfter(n - 1, kind, p0)
           r    == rules[n]
       IN  IF Admits(r, kind) THEN Effect(NameOf(r.op), r.arg, prev) ELSE prev

\* x repeated m times
RECURSIVE Repeated(_, _)
Repeated(x, m) == IF m = 0 THEN <<>> ELSE x \o Repeated(x, m - 1)

\* C9: for a line decoding to (kind, id, p0) the transforms are applied in the
\* order of the rules, each to the previous one's result: after n of them the
\* record is (kind, id, p(n)), and the output line is kind|id|p(all).  A prefix
\* (suffix) rule that makes up the whole list m times over prepends (appends)
\* its argument m times.
C9_LeftToRightFold ==
  (AllRulesCompile /\ consumed > 0 /\ ~Malformed(consumed))
  => LET r0 == parse_line(lines[consumed]).rec
     IN  /\ pc = "xform"
            => cur = Record(r0.kind, r0.rec_id, PayloadAfter(ti, r0.kind, r0.payload))
         /\ pc \in {"loop", "returned"}
            => /\ Len(out) = consumed
               /\ out[consumed] =
                    r0.kind \o <<SEP>> \o r0.rec_id \o <<SEP>>
                      \o PayloadAfter(Len(rules), r0.kind, r0.payload)
               /\ \A k \in 1..Len(rules) :
                    (/\ rules = [j \in 1..Len(rules) |-> rules[k]]
                     /\ Admits(rules[k], r0.kind))
                    => /\ rules[k].op = <<"prefix_payload">>
                          => out[consumed] =
                               r0.kind \o <<SEP>> \o r0.rec_id \o <<SEP>>
                                 \o Repeated(rules[k].arg, Len(rules)) \o r0.payload
                       /\ rules[k].op = <<"suffix_payload">>
                          => out[consumed] =
                               r0.kind \o <<SEP>> \o r0.rec_id \o <<SEP>>
                                 \o r0.payload \o Repeated(rules[k].arg, Len(rules))

\* "A|1|x" under the prefix ">> " twice gives "A|1|>> >> x"
C9_Witness ==
  /\ pc = "returned"
  /\ lines = <<LineA1x>>
  /\ Len(rules) = 2
  /\ \A k \in 1..2 : rules[k] = Rule("prefix", <<"prefix_payload">>, <<">", ">", " ">>, None)
  /\ returned = <<<< <<"A", SEP, "1", SEP, ">", ">", " ", ">", ">", " ", "x">> >>>>

=============================================================================
